---- MODULE Spec2Model ----
(***************************************************************************)
(* Winternitz one-time signatures: src/src/winternitz.rs.                  *)
(*                                                                         *)
(* The model keeps the integer widths of the Rust code (i32 for the chain  *)
(* length computed in new, 64-bit usize for the chain length computed in   *)
(* sign and verify).  Values wider than 31 bits are kept as little-endian  *)
(* sequences of 16-bit limbs.  SHA-256 is modelled as an injective,        *)
(* cycle-free function on byte strings: a byte string is the pair of the   *)
(* string it descends from and the number of hashes applied to it.  The    *)
(* digests of the messages are the real SHA-256 digests.                   *)
(***************************************************************************)
EXTENDS Integers, Sequences, FiniteSets, TLC

VARIABLES profile, pc, w, private_key, public_key, held, call

vars == <<profile, pc, w, private_key, public_key, held, call>>

\* Number of distinct outcomes of the random generator that are told apart.
MaxSalt == 2

\* Number of components appended to a signature to make it too long.
MaxExtra == 1

\* ------------------------------------------------------------------------
\* Program constants
\* ------------------------------------------------------------------------

\* SHA-256 output size in bits: the literal 256 of `256 / w as usize + 1`.
DigestBits == 256

\* SHA-256 output size in bytes: hash.len() in sign and verify.
DigestBytes == 32

\* Width of the integer type of `(1 << w) - 1` in new (an i32 by inference).
I32Bits == 32

\* Width of usize, the type of `(1usize << self.w) - 1` in sign and verify,
\* on a 64-bit target.
UsizeBits == 64

I32Max == 2147483647

I32Min == -I32Max - 1

\* Build profiles: "debug" has overflow checks on, "release" has them off.
Profiles == {"debug", "release"}

\* The values of w (a u8) that construction is called with.
WValues == {0, 2, 4, 8, 16, 30, 31, 32, 64, 255}

\* The messages signed and verified.
Messages == {"test", "Test", "Signing with w=8"}

\* ------------------------------------------------------------------------
\* Natural numbers of any size, as little-endian sequences of 16-bit limbs
\* without high zero limbs (so that equal numbers are equal sequences).
\* ------------------------------------------------------------------------

LimbBase == 2^16

RECURSIVE StripZeros(_)
StripZeros(s) ==
    IF s = <<>> THEN s
    ELSE IF s[Len(s)] = 0 THEN StripZeros(SubSeq(s, 1, Len(s) - 1))
    ELSE s

Limb(s, i) == IF i <= Len(s) THEN s[i] ELSE 0

BigZero == <<>>

BigOne == <<1>>

BigOfNat(x) == StripZeros(<<x % LimbBase, x \div LimbBase>>)

BigPow2(e) ==
    [i \in 1..(e \div 16 + 1) |-> IF i = e \div 16 + 1 THEN 2^(e % 16) ELSE 0]

RECURSIVE AddLimbs(_, _, _, _)
AddLimbs(a, b, i, carry) ==
    IF i > Len(a) /\ i > Len(b)
    THEN (IF carry = 0 THEN <<>> ELSE <<carry>>)
    ELSE LET t == Limb(a, i) + Limb(b, i) + carry
         IN  <<t % LimbBase>> \o AddLimbs(a, b, i + 1, t \div LimbBase)

BigAdd(a, b) == AddLimbs(a, b, 1, 0)

RECURSIVE SubLimbs(_, _, _, _)
SubLimbs(a, b, i, borrow) ==
    IF i > Len(a) THEN <<>>
    ELSE LET t == Limb(a, i) - Limb(b, i) - borrow
         IN  IF t < 0
             THEN <<t + LimbBase>> \o SubLimbs(a, b, i + 1, 1)
             ELSE <<t>> \o SubLimbs(a, b, i + 1, 0)

RECURSIVE LessFrom(_, _, _)
LessFrom(a, b, i) ==
    IF i = 0 THEN FALSE
    ELSE IF a[i] # b[i] THEN a[i] < b[i]
    ELSE LessFrom(a, b, i - 1)

BigLess(a, b) ==
    IF Len(a) # Len(b) THEN Len(a) < Len(b) ELSE LessFrom(a, b, Len(a))

\* a - b for b <= a.
BigSub(a, b) == StripZeros(SubLimbs(a, b, 1, 0))

\* usize::min
BigMin(a, b) == IF BigLess(b, a) THEN b ELSE a

\* usize::saturating_sub
SaturatingSub(a, b) == IF BigLess(a, b) THEN BigZero ELSE BigSub(a, b)

\* ------------------------------------------------------------------------
\* Rust integer arithmetic with its overflow behaviour.  A result is
\* [panic |-> BOOLEAN, val |-> value]; val is meaningless when panic holds.
\* ------------------------------------------------------------------------

Panics == [panic |-> TRUE, val |-> 0]

Value(v) == [panic |-> FALSE, val |-> v]

\* `1 << w` on i32.  With overflow checks a shift by 32 or more panics;
\* without them the shift amount is masked to its low 5 bits.
ShlI32(wv, prof) ==
    IF prof = "debug" /\ wv >= I32Bits THEN Panics
    ELSE LET sh == wv % I32Bits
         IN  Value(IF sh = I32Bits - 1 THEN I32Min ELSE 2^sh)

\* `x - 1` on i32: panics on overflow with checks on, wraps without.
SubOneI32(x, prof) ==
    IF x = I32Min
    THEN (IF prof = "debug" THEN Panics ELSE Value(I32Max))
    ELSE Value(x - 1)

\* `1usize << w`: as ShlI32 with the width of usize.
ShlUsize(wv, prof) ==
    IF prof = "debug" /\ wv >= UsizeBits THEN Panics
    ELSE Value(BigPow2(wv % UsizeBits))

\* `256 / w as usize + 1`: integer division panics on a zero divisor in
\* every build profile.
ChainCount(wv) ==
    IF wv = 0 THEN Panics ELSE Value(DigestBits \div wv + 1)

\* Faulty variant of NewChainLength: 1 << w iterations, the subtraction
\* of 1 left out.
NewChainLengthNoSub(wv, prof) == ShlI32(wv, prof)

\* `let chain_length = (1 << w) - 1;` of new, an i32.
NewChainLength(wv, prof) ==
    LET s == ShlI32(wv, prof)
    IN  IF s.panic THEN Panics ELSE SubOneI32(s.val, prof)

\* `(1 << self.w) - 1` of sign and verify, a usize.  1 << x is never 0,
\* so the subtraction does not overflow.
MaxBlock(wv, prof) ==
    LET s == ShlUsize(wv, prof)
    IN  IF s.panic THEN Panics ELSE Value(BigSub(s.val, BigOne))

\* ------------------------------------------------------------------------
\* Byte strings and SHA-256
\* ------------------------------------------------------------------------

\* The seed that rng.fill_bytes draws for chain i (counted from 1) of an
\* instance; salt tells apart the outcomes of the random generator.
Seed(salt, i) == [origin |-> <<salt, i>>, depth |-> BigZero]

\* A byte string that lies on no chain of any instance.
Junk == [origin |-> <<0, 0>>, depth |-> BigZero]

\* Sha256::digest of a 32-byte string.
Hash(x) == [x EXCEPT !.depth = BigAdd(@, BigOne)]

\* `for _ in 0..k { current = Sha256::digest(&current).to_vec(); }`:
\* k applications of Hash, which add k to the number of hashes applied.
HashChain(x, k) == [x EXCEPT !.depth = BigAdd(@, k)]

\* Sha256::digest(message).to_vec(): the 32 bytes of the digest.
Digest(m) ==
    CASE m = "test" ->
           <<159, 134, 208, 129, 136, 76, 125, 101, 154, 47, 234, 160, 197,
             90, 208, 21, 163, 191, 79, 27, 43, 11, 130, 44, 209, 93, 108,
             21, 176, 240, 10, 8>>
      [] m = "Test" ->
           <<83, 46, 170, 189, 149, 116, 136, 13, 191, 118, 185, 184, 204,
             0, 131, 44, 32, 166, 236, 17, 61, 104, 34, 153, 85, 13, 122,
             110, 15, 52, 94, 37>>
      [] m = "Signing with w=8" ->
           <<58, 166, 32, 144, 186, 6, 248, 196, 158, 250, 183, 40, 55, 46,
             188, 180, 195, 179, 161, 18, 247, 62, 255, 59, 4, 161, 88,
             109, 208, 219, 167, 192>>

\* ------------------------------------------------------------------------
\* The operations of Winternitz, as functions of the instance's fields
\* ------------------------------------------------------------------------

\* The number of iterations of `for _ in 0..k` for an i32 k.
LoopCount(k) == IF k <= 0 THEN BigZero ELSE BigOfNat(k)

\* Winternitz::new(w): the fields of the new instance, or a panic.
NewInstance(wv, prof, salt) ==
    LET n == ChainCount(wv)
    IN  IF n.panic THEN Panics
        ELSE LET chain_length == NewChainLength(wv, prof)
             IN  IF chain_length.panic THEN Panics
                 ELSE Value([w |-> wv,
                             private_key |-> [i \in 1..n.val |-> Seed(salt, i)],
                             public_key |->
                                 [i \in 1..n.val |->
                                     HashChain(Seed(salt, i),
                                               LoopCount(chain_length.val))]])

\* Faulty variant of BlockValue: the digest byte is not clamped to
\* (1 << self.w) - 1.
BlockValueNoClamp(mx, hash, i) ==
    IF i <= Len(hash)
    THEN (IF mx.panic THEN Panics ELSE Value(BigOfNat(hash[i])))
    ELSE Value(BigZero)

\* block_value of sign and verify for chain i (counted from 1, so that
\* hash[i] here is hash[i - 1] in the code); mx is (1 << self.w) - 1.
BlockValue(mx, hash, i) ==
    IF i <= Len(hash)
    THEN (IF mx.panic THEN Panics ELSE Value(BigMin(BigOfNat(hash[i]), mx.val)))
    ELSE Value(BigZero)

\* Faulty variant of SignOp: a key that has signed rejects every later
\* sign.
SignOpOnce(wv, sk, prof, message) ==
    LET hash == Digest(message)
        mx == MaxBlock(wv, prof)
    IN  IF mx.panic \/ held # {} THEN Panics
        ELSE Value([i \in 1..Len(sk) |->
                       HashChain(sk[i],
                                 IF i <= Len(hash)
                                 THEN BigMin(BigOfNat(hash[i]), mx.val)
                                 ELSE BigZero)])

\* self.sign(message): the signature, or a panic.
SignOp(wv, sk, prof, message) ==
    LET hash == Digest(message)
        mx == MaxBlock(wv, prof)
        blocks == [i \in 1..Len(sk) |-> BlockValue(mx, hash, i)]
    IN  IF \E i \in 1..Len(sk) : blocks[i].panic THEN Panics
        ELSE Value([i \in 1..Len(sk) |-> HashChain(sk[i], blocks[i].val)])

\* Faulty variant of RemainingHashes: the block value is not subtracted.
RemainingHashesNoSub(mx, block) ==
    IF mx.panic THEN Panics ELSE Value(mx.val)

\* remaining_hashes of verify; mx is (1usize << self.w) - 1.
RemainingHashes(mx, block) ==
    IF mx.panic THEN Panics ELSE Value(SaturatingSub(mx.val, block))

\* Faulty variant of Mismatch: the component is hashed until the public
\* key entry is reached, whatever the block value, so that every string
\* from which the entry can be reached matches.
MismatchUntilReached(mx, pk, hash, signature, i) ==
    ~(/\ signature[i].origin = pk[i].origin
      /\ ~BigLess(pk[i].depth, signature[i].depth))

\* Whether `current != self.public_key[i]` holds for chain i <= Len(pk).
Mismatch(mx, pk, hash, signature, i) ==
    HashChain(signature[i],
              RemainingHashes(mx, BlockValue(mx, hash, i).val).val) # pk[i]

Min(a, b) == IF a < b THEN a ELSE b

\* self.verify(message, signature): "true", "false" or "panic".  The loop
\* over 0..signature.len() returns false at the first chain that does not
\* match; it evaluates 1usize << self.w in its first iteration (i <
\* hash.len() holds there), and public_key[i] panics once i is out of the
\* bounds of the public key, which the loop reaches when every chain
\* before matched.
VerifyOp(wv, pk, prof, message, signature) ==
    LET mx == MaxBlock(wv, prof)
        hash == Digest(message)
    IN  IF Len(signature) = 0 THEN "true"
        ELSE IF mx.panic THEN "panic"
        ELSE IF \E i \in 1..Min(Len(signature), Len(pk)) :
                    Mismatch(mx, pk, hash, signature, i)
             THEN "false"
        ELSE IF Len(signature) > Len(pk) THEN "panic"
        ELSE "true"

\* ------------------------------------------------------------------------
\* The signatures verify is called with, built from a signature the
\* caller holds
\* ------------------------------------------------------------------------

RECURSIVE Repeat(_, _)
Repeat(x, k) == IF k = 0 THEN <<>> ELSE <<x>> \o Repeat(x, k - 1)

\* The byte strings a signature is extended with.
Extras(s) == {Junk, s[1]}

\* The byte strings component i of s is replaced by: its hash, its
\* preimage when it has one on its chain, the component of the next chain,
\* and a string on no chain.
Replacements(s, i) ==
    {Hash(s[i]), s[(i % Len(s)) + 1], Junk}
        \cup (IF s[i].depth = BigZero THEN {}
              ELSE {[s[i] EXCEPT !.depth = BigSub(@, BigOne)]})

\* The attacker's best attempt at a signature of `target` from the signed
\* pair h: every component hashed forward as far as target's block value
\* exceeds that of the signed message (the hash cannot be inverted).
Forged(wv, prof, h, target) ==
    LET mx == MaxBlock(wv, prof)
    IN  [i \in 1..Len(h.sig) |->
            HashChain(h.sig[i],
                      SaturatingSub(BlockValue(mx, Digest(target), i).val,
                                    BlockValue(mx, Digest(h.msg), i).val))]

\* ------------------------------------------------------------------------
\* The state machine: a caller that constructs one instance and then
\* calls sign, verify and get_public_key in any order
\* ------------------------------------------------------------------------

NoCall ==
    [op |-> "none", w |-> 0, msg |-> "", sig |-> <<>>, ret |-> "", repeat |-> FALSE]

Init ==
    /\ profile \in Profiles
    /\ pc = "start"
    /\ w = 0
    /\ private_key = <<>>
    /\ public_key = <<>>
    /\ held = {}
    /\ call = NoCall

\* let winternitz = Winternitz::new(wv);
New(wv, salt) ==
    /\ pc = "start"
    /\ LET r == NewInstance(wv, profile, salt)
       IN  IF r.panic
           THEN /\ pc' = "aborted"
                /\ call' = [NoCall EXCEPT !.op = "new", !.w = wv, !.ret = "panic"]
                /\ UNCHANGED <<w, private_key, public_key>>
           ELSE /\ pc' = "returned"
                /\ call' = [NoCall EXCEPT !.op = "new", !.w = wv, !.ret = "ok"]
                /\ w' = r.val.w
                /\ private_key' = r.val.private_key
                /\ public_key' = r.val.public_key
    /\ UNCHANGED <<profile, held>>

\* let signature = winternitz.sign(m);  the caller keeps the signature.
Sign(m) ==
    /\ pc = "idle"
    /\ LET r == SignOp(w, private_key, profile, m)
       IN  IF r.panic
           THEN /\ pc' = "aborted"
                /\ call' = [NoCall EXCEPT !.op = "sign", !.msg = m, !.ret = "panic"]
                /\ UNCHANGED held
           ELSE /\ pc' = "returned"
                /\ call' = [NoCall EXCEPT !.op = "sign", !.msg = m, !.sig = r.val,
                                          !.ret = "ok",
                                          !.repeat = (\E h \in held : h.msg = m)]
                /\ held' = held \cup {[msg |-> m, sig |-> r.val]}
    /\ UNCHANGED <<profile, w, private_key, public_key>>

\* let is_valid = winternitz.verify(m, &s);
Verify(m, s) ==
    /\ pc = "idle"
    /\ LET r == VerifyOp(w, public_key, profile, m, s)
       IN  /\ pc' = IF r = "panic" THEN "aborted" ELSE "returned"
           /\ call' = [NoCall EXCEPT !.op = "verify", !.msg = m, !.sig = s, !.ret = r]
    /\ UNCHANGED <<profile, w, private_key, public_key, held>>

\* verify of any message with a signature the caller holds, unmodified.
VerifyHeld == \E m \in Messages, h \in held : Verify(m, h.sig)

\* verify with a proper prefix of a held signature (the empty one included).
VerifyPrefix ==
    \E m \in Messages, h \in held :
        \E k \in 0..(Len(h.sig) - 1) :
            /\ m = h.msg \/ k = 0
            /\ Verify(m, SubSeq(h.sig, 1, k))

\* verify with a held signature extended by one or more components.
VerifyExtended ==
    \E h \in held, k \in 1..MaxExtra :
        \E x \in Extras(h.sig) : Verify(h.msg, h.sig \o Repeat(x, k))

\* verify with a held signature, one component replaced.
VerifyTampered ==
    \E h \in held :
        \E i \in 1..Len(h.sig) :
            \E x \in Replacements(h.sig, i) :
                Verify(h.msg, [h.sig EXCEPT ![i] = x])

\* verify of a message with the signature forged for it from a held one.
VerifyForged ==
    \E h \in held, t \in Messages : Verify(t, Forged(w, profile, h, t))

\* let public_key = winternitz.get_public_key();
GetPublicKey ==
    /\ pc = "idle"
    /\ pc' = "returned"
    /\ call' = [NoCall EXCEPT !.op = "get_public_key", !.sig = public_key, !.ret = "ok"]
    /\ UNCHANGED <<profile, w, private_key, public_key, held>>

\* The caller goes on after a call has returned; the call's result goes
\* out of scope.
Continue ==
    /\ pc = "returned"
    /\ pc' = "idle"
    /\ call' = NoCall
    /\ UNCHANGED <<profile, w, private_key, public_key, held>>

Next ==
    \/ \E wv \in WValues, salt \in 1..MaxSalt : New(wv, salt)
    \/ \E m \in Messages : Sign(m)
    \/ VerifyHeld
    \/ VerifyPrefix
    \/ VerifyExtended
    \/ VerifyTampered
    \/ VerifyForged
    \/ GetPublicKey
    \/ Continue

Spec == Init /\ [][Next]_vars

\* ------------------------------------------------------------------------
\* Notions the properties are stated with
\* ------------------------------------------------------------------------

\* An instance has been constructed (new has returned).
Constructed == pc # "start" /\ ~(call.op = "new" /\ call.ret = "panic")

\* w is valid: positive, and 2^w fits the i32 of the chain length of new.
ValidW(wv) == wv > 0 /\ wv < I32Bits - 1

\* L = 2^w - 1, the chain length, as a number of any size.
ChainLength(wv) == BigSub(BigPow2(wv), BigOne)

\* p_i: the position of component i of a signature of m on its chain.
Position(wv, m, i) ==
    IF i <= DigestBytes
    THEN BigMin(BigOfNat(Digest(m)[i]), ChainLength(wv))
    ELSE BigZero

\* The indices where signatures s and t of the same length differ.
Differing(s, t) == {i \in 1..Len(s) : s[i] # t[i]}

\* The caller holds the signature that sign returned for message m.
HeldFor(m, s) == [msg |-> m, sig |-> s] \in held

\* ------------------------------------------------------------------------
\* Properties
\* ------------------------------------------------------------------------

\* C1 (round trip): on an instance constructed with w in {2, 4, 8, 16},
\* verify of a message with the unmodified signature that sign returned
\* for that message returns true.
C1_RoundTrip ==
    (call.op = "verify" /\ w \in {2, 4, 8, 16} /\ HeldFor(call.msg, call.sig))
        => call.ret = "true"

C1_Witness ==
    /\ call.op = "verify"
    /\ w = 16
    /\ call.msg = "Signing with w=8"
    /\ HeldFor(call.msg, call.sig)
    /\ call.ret = "true"

\* C2 (length-mismatch rejection): verify of any message with a signature
\* whose number of components is not the number n of chains returns false:
\* it neither returns true nor panics.
C2_LengthMismatchRejected ==
    (call.op = "verify" /\ Len(call.sig) # Len(public_key))
        => call.ret = "false"

\* C3 (invalid parameter rejection): construction with w = 0 ends in the
\* error InvalidParameter, not in a panic and not in an instance.
C3_ZeroRejected ==
    (call.op = "new" /\ call.w = 0) => call.ret = "InvalidParameter"

\* C4 (message binding): for every valid w, verify of a message m2 with
\* the signature that sign returned for a message m1 of a different digest
\* returns false.
C4_MessageBinding ==
    (/\ call.op = "verify"
     /\ ValidW(w)
     /\ \E h \in held : h.sig = call.sig /\ Digest(h.msg) # Digest(call.msg))
        => call.ret = "false"

\* C5 (tamper rejection): verify of a message with the signature that sign
\* returned for it, exactly one component replaced by a different byte
\* string and the length unchanged, returns false.
C5_TamperRejected ==
    (/\ call.op = "verify"
     /\ \E h \in held :
            /\ h.msg = call.msg
            /\ Len(call.sig) = Len(h.sig)
            /\ Cardinality(Differing(call.sig, h.sig)) = 1)
        => call.ret = "false"

\* The tampered component is the one at the end of its chain (block value
\* L, no further hash applied by verify), with w = 8.
C5_Witness ==
    /\ call.op = "verify"
    /\ call.ret = "false"
    /\ w = 8
    /\ \E h \in held :
            /\ h.msg = call.msg
            /\ Len(call.sig) = Len(h.sig)
            /\ \E i \in 1..Len(h.sig) :
                   /\ Differing(call.sig, h.sig) = {i}
                   /\ h.sig[i] = public_key[i]

\* C6 (overflow rejection): construction with a w for which 1 << w
\* overflows the integer width of the chain length ends in the error
\* InvalidParameter, and the public key of every instance is computed with
\* the chain length that sign and verify use for its w.
C6_OverflowRejected ==
    /\ (call.op = "new" /\ call.w >= I32Bits) => call.ret = "InvalidParameter"
    /\ (Constructed /\ ~MaxBlock(w, profile).panic) =>
           \A i \in 1..Len(public_key) :
               public_key[i] = HashChain(private_key[i], MaxBlock(w, profile).val)

\* C7 (key invariant): an instance constructed with a valid w has, at any
\* time, a private key and a public key of floor(256 / w) + 1 entries each,
\* and entry i of the public key is the hash applied 2^w - 1 times to entry
\* i of the private key.
C7_KeyInvariant ==
    (Constructed /\ ValidW(w)) =>
        /\ Len(private_key) = DigestBits \div w + 1
        /\ Len(public_key) = DigestBits \div w + 1
        /\ \A i \in 1..Len(private_key) :
               public_key[i] = HashChain(private_key[i], ChainLength(w))

C7_Witness ==
    /\ Constructed
    /\ w = 8
    /\ Len(public_key) = 33
    /\ Cardinality(held) = 2
    /\ call.op = "verify"

\* C8 (determinism, no mutation): no call on a constructed instance changes
\* w, the private key or the public key; sign is never rejected, and it
\* returns the signature that every earlier sign of the same message
\* returned, whatever was called in between.
C8_NoMutation ==
    [][Constructed =>
          /\ w' = w
          /\ private_key' = private_key
          /\ public_key' = public_key
          /\ call'.op = "sign" =>
                 /\ call'.ret = "ok"
                 /\ \A h \in held : h.msg = call'.msg => h.sig = call'.sig]_vars

\* A message is signed again after another message has been signed.
C8_Witness ==
    /\ call.op = "sign"
    /\ call.ret = "ok"
    /\ call.repeat
    /\ Cardinality(held) >= 2

Assemblable(s, h) ==
    /\ Len(s) = Len(h.sig)
    /\ \A i \in 1..Len(s) :
           \/ s[i] = Junk
           \/ s[i].origin = h.sig[i].origin /\ ~BigLess(s[i].depth, h.sig[i].depth)

\* C10 (one-time unforgeability): when one message m1 has been signed, no
\* signature assemblable from sign(m1) makes verify return true for a
\* message whose block values differ from those of m1.
C10_Unforgeable ==
    (/\ call.op = "verify"
     /\ ValidW(w)
     /\ Cardinality(held) = 1
     /\ \E h \in held :
            /\ Assemblable(call.sig, h)
            /\ \E i \in 1..Len(h.sig) :
                   Position(w, call.msg, i) # Position(w, h.msg, i))
        => call.ret # "true"

====
